---- MODULE Spec2Model ----
(***************************************************************************)
(* A model of the datastruct crate: the DValue value model, its canonical  *)
(* rendering (ToString), the nom text grammar behind DValue::from, the     *)
(* serde JSON bridge, the weight function and the weight-based ordering.   *)
(*                                                                         *)
(* Text is a sequence of characters, each character a one-character        *)
(* string.  Bytes are integers in 0..255.  A float is an integer in        *)
(* -F64_MAX..F64_MAX, or one of PosInf, NegInf, NaN: the f64 domain scaled *)
(* down so that the largest finite float, its overflow to infinity and the *)
(* not-a-number value can all be drawn.                                    *)
(***************************************************************************)
EXTENDS Integers, Sequences, FiniteSets, TLC

VARIABLES v, u, input, op, str, num, ord, flag

vars == <<v, u, input, op, str, num, ord, flag>>

(***************************************************************************)
(* Bounds of the exploration.                                              *)
(***************************************************************************)
\* The members and tuples a value is built of, at most.
MaxSteps == 2
\* The characters of a binary literal's content, at most.
MaxText == 4

(***************************************************************************)
(* Characters.                                                             *)
(***************************************************************************)
Printable ==
  << " ", "!", "\"", "#", "$", "%", "&", "'", "(", ")", "*", "+", ",", "-", ".", "/",
     "0", "1", "2", "3", "4", "5", "6", "7", "8", "9", ":", ";", "<", "=", ">", "?",
     "@", "A", "B", "C", "D", "E", "F", "G", "H", "I", "J", "K", "L", "M", "N", "O",
     "P", "Q", "R", "S", "T", "U", "V", "W", "X", "Y", "Z", "[", "\\", "]", "^", "_",
     "GRAVE", "a", "b", "c", "d", "e", "f", "g", "h", "i", "j", "k", "l", "m", "n", "o",
     "p", "q", "r", "s", "t", "u", "v", "w", "x", "y", "z", "{", "|", "}", "~" >>

\* The character of a Unicode scalar value ("GRAVE" stands for the grave accent).
Chr(cp) ==
  IF cp \in 32..126 THEN Printable[cp - 31]
  ELSE IF cp = 9 THEN "\t"
  ELSE IF cp = 10 THEN "\n"
  ELSE IF cp = 12 THEN "\f"
  ELSE IF cp = 13 THEN "\r"
  ELSE "U+" \o ToString(cp)

OrdMap == [c \in {Chr(cp) : cp \in 0..127} |-> CHOOSE cp \in 0..127 : Chr(cp) = c]

is_ascii(c) == c \in DOMAIN OrdMap

\* The code of an ASCII character.
Ord(c) == OrdMap[c]

is_ascii_control(c) == is_ascii(c) /\ (Ord(c) < 32 \/ Ord(c) = 127)

is_ascii_digit(c) == is_ascii(c) /\ Ord(c) \in 48..57

is_ascii_hexdigit(c) ==
  is_ascii(c) /\ (Ord(c) \in 48..57 \/ Ord(c) \in 65..70 \/ Ord(c) \in 97..102)

to_ascii_lowercase(c) == IF is_ascii(c) /\ Ord(c) \in 65..90 THEN Chr(Ord(c) + 32) ELSE c

\* char::is_whitespace as nom's multispace0 takes it: space, tab, CR, LF.
is_multispace(c) == c \in {" ", "\t", "\r", "\n"}

Drop(s, n) == SubSeq(s, n + 1, Len(s))

Take(s, n) == SubSeq(s, 1, n)

starts_with(s, t) == Len(s) >= Len(t) /\ Take(s, Len(t)) = t

ends_with(s, t) == Len(s) >= Len(t) /\ Drop(s, Len(s) - Len(t)) = t

RECURSIVE join(_, _)
join(parts, sep) ==
  IF parts = <<>> THEN <<>>
  ELSE IF Len(parts) = 1 THEN parts[1]
  ELSE parts[1] \o sep \o join(Tail(parts), sep)

(***************************************************************************)
(* base64, the STANDARD engine: the alphabet A-Z a-z 0-9 + /, canonical    *)
(* padding required, no trailing bits allowed.                             *)
(***************************************************************************)
B64Alphabet ==
  << "A", "B", "C", "D", "E", "F", "G", "H", "I", "J", "K", "L", "M", "N", "O", "P",
     "Q", "R", "S", "T", "U", "V", "W", "X", "Y", "Z", "a", "b", "c", "d", "e", "f",
     "g", "h", "i", "j", "k", "l", "m", "n", "o", "p", "q", "r", "s", "t", "u", "v",
     "w", "x", "y", "z", "0", "1", "2", "3", "4", "5", "6", "7", "8", "9", "+", "/" >>

B64Index == [c \in {B64Alphabet[i] : i \in 1..64} |-> (CHOOSE i \in 1..64 : B64Alphabet[i] = c) - 1]

is_b64(c) == c \in DOMAIN B64Index

B64(n) == B64Alphabet[n + 1]

RECURSIVE b64_encode(_)
b64_encode(data) ==
  IF data = <<>> THEN <<>>
  ELSE IF Len(data) = 1 THEN
    << B64(data[1] \div 4), B64((data[1] % 4) * 16), "=", "=" >>
  ELSE IF Len(data) = 2 THEN
    << B64(data[1] \div 4), B64((data[1] % 4) * 16 + data[2] \div 16),
       B64((data[2] % 16) * 4), "=" >>
  ELSE
    << B64(data[1] \div 4), B64((data[1] % 4) * 16 + data[2] \div 16),
       B64((data[2] % 16) * 4 + data[3] \div 64), B64(data[3] % 64) >>
    \o b64_encode(Drop(data, 3))

\* One quantum of four characters to its bytes; <<-1>> for an invalid one.
\* `last` is whether the quantum ends the text (only then may it be padded).
b64_quad(q, last) ==
  LET i1 == B64Index[q[1]]
      i2 == B64Index[q[2]]
      i3 == B64Index[q[3]]
      i4 == B64Index[q[4]]
  IN  IF ~(is_b64(q[1]) /\ is_b64(q[2])) THEN << -1 >>
      ELSE IF q[3] = "=" /\ q[4] = "=" THEN
        IF last /\ i2 % 16 = 0 THEN << i1 * 4 + i2 \div 16 >> ELSE << -1 >>
      ELSE IF ~is_b64(q[3]) THEN << -1 >>
      ELSE IF q[4] = "=" THEN
        IF last /\ i3 % 4 = 0
        THEN << i1 * 4 + i2 \div 16, (i2 % 16) * 16 + i3 \div 4 >>
        ELSE << -1 >>
      ELSE IF ~is_b64(q[4]) THEN << -1 >>
      ELSE << i1 * 4 + i2 \div 16, (i2 % 16) * 16 + i3 \div 4, (i3 % 4) * 64 + i4 >>

\* STANDARD.decode: [ok |-> TRUE, data |-> bytes] or [ok |-> FALSE].
RECURSIVE b64_decode(_)
b64_decode(t) ==
  IF t = <<>> THEN [ok |-> TRUE, data |-> <<>>]
  ELSE IF Len(t) < 4 THEN [ok |-> FALSE]
  ELSE
    LET q == b64_quad(Take(t, 4), Len(t) = 4)
        r == b64_decode(Drop(t, 4))
    IN  IF q = << -1 >> \/ ~r.ok THEN [ok |-> FALSE]
        ELSE [ok |-> TRUE, data |-> q \o r.data]

(***************************************************************************)
(* UTF-8.                                                                  *)
(***************************************************************************)
is_cont(b) == b \in 128..191

\* String::from_utf8: [ok |-> TRUE, s |-> text] or [ok |-> FALSE].
RECURSIVE from_utf8(_)
from_utf8(bytes) ==
  IF bytes = <<>> THEN [ok |-> TRUE, s |-> <<>>]
  ELSE
    LET b == bytes[1]
        n == IF b < 128 THEN 1
             ELSE IF b \in 194..223 THEN 2
             ELSE IF b \in 224..239 THEN 3
             ELSE IF b \in 240..244 THEN 4
             ELSE 0
        wellformed ==
          /\ n > 0
          /\ Len(bytes) >= n
          /\ \A i \in 2..n : is_cont(bytes[i])
          /\ (b = 224 => bytes[2] >= 160)
          /\ (b = 237 => bytes[2] <= 159)
          /\ (b = 240 => bytes[2] >= 144)
          /\ (b = 244 => bytes[2] <= 143)
        cp == IF n = 1 THEN b
              ELSE IF n = 2 THEN (b - 192) * 64 + (bytes[2] - 128)
              ELSE IF n = 3 THEN
                (b - 224) * 4096 + (bytes[2] - 128) * 64 + (bytes[3] - 128)
              ELSE (b - 240) * 262144 + (bytes[2] - 128) * 4096
                   + (bytes[3] - 128) * 64 + (bytes[4] - 128)
    IN  IF ~wellformed THEN [ok |-> FALSE]
        ELSE LET r == from_utf8(Drop(bytes, n))
             IN  IF r.ok THEN [ok |-> TRUE, s |-> << Chr(cp) >> \o r.s]
                 ELSE [ok |-> FALSE]

\* The UTF-8 bytes of an ASCII text.
as_bytes(s) == [i \in 1..Len(s) |-> Ord(s[i])]

(***************************************************************************)
(* Floats.                                                                 *)
(***************************************************************************)
F64_MAX == 99

PosInf == F64_MAX + 1

NegInf == 0 - (F64_MAX + 1)

NaN == F64_MAX + 2

is_finite(x) == x \in (0 - F64_MAX)..F64_MAX

\* f64 addition.
f64_add(a, b) ==
  IF a = NaN \/ b = NaN THEN NaN
  ELSE IF (a = PosInf /\ b = NegInf) \/ (a = NegInf /\ b = PosInf) THEN NaN
  ELSE IF a = PosInf \/ b = PosInf THEN PosInf
  ELSE IF a = NegInf \/ b = NegInf THEN NegInf
  ELSE IF a + b > F64_MAX THEN PosInf
  ELSE IF a + b < 0 - F64_MAX THEN NegInf
  ELSE a + b

\* f64 ==.
f64_eq(a, b) == a # NaN /\ b # NaN /\ a = b

\* f64::partial_cmp: "None" when either side is NaN.
f64_partial_cmp(a, b) ==
  IF a = NaN \/ b = NaN THEN "None"
  ELSE IF a < b THEN "Less"
  ELSE IF a > b THEN "Greater"
  ELSE "Equal"

RECURSIVE digits(_)
digits(n) ==
  IF n < 10 THEN << Chr(48 + n) >> ELSE digits(n \div 10) \o << Chr(48 + (n % 10)) >>

\* <f64 as Display>::fmt.
f64_to_string(x) ==
  IF x = NaN THEN << "N", "a", "N" >>
  ELSE IF x = PosInf THEN << "i", "n", "f" >>
  ELSE IF x = NegInf THEN << "-", "i", "n", "f" >>
  ELSE IF x < 0 THEN << "-" >> \o digits(0 - x)
  ELSE digits(x)

(***************************************************************************)
(* Binary (binary_util.rs).                                                *)
(***************************************************************************)
Binary_new(data) == [data |-> data]

\* Ok(Binary) or Err.
Binary_from_b64(value) ==
  LET d == b64_decode(value)
  IN  IF d.ok THEN [ok |-> TRUE, bin |-> [data |-> d.data]] ELSE [ok |-> FALSE]

Binary_to_string(bin) ==
  << "b", "i", "n", "a", "r", "y", " ", "u", "t", "i", "l", "!", "(" >>
  \o b64_encode(bin.data) \o << ")" >>

(***************************************************************************)
(* DValue.  A Dict holds its entries in the order its HashMap iterates.    *)
(***************************************************************************)
VNone == [tag |-> "None"]

VString(s) == [tag |-> "String", s |-> s]

VNumber(n) == [tag |-> "Number", n |-> n]

VBoolean(b) == [tag |-> "Boolean", b |-> b]

VList(items) == [tag |-> "List", items |-> items]

VDict(entries) == [tag |-> "Dict", entries |-> entries]

VTuple(a, b) == [tag |-> "Tuple", a |-> a, b |-> b]

VBinaryUtil(bin) == [tag |-> "BinaryUtil", bin |-> bin]

RECURSIVE to_string(_)
to_string(x) ==
  CASE x.tag = "None" -> << "n", "o", "n", "e" >>
    [] x.tag = "String" -> << "\"" >> \o x.s \o << "\"" >>
    [] x.tag = "Number" -> f64_to_string(x.n)
    [] x.tag = "Boolean" ->
         IF x.b THEN << "t", "r", "u", "e" >> ELSE << "f", "a", "l", "s", "e" >>
    [] x.tag = "List" ->
         << "[" >> \o join([i \in 1..Len(x.items) |-> to_string(x.items[i])], << "," >>)
         \o << "]" >>
    [] x.tag = "Dict" ->
         << "{" >>
         \o join([i \in 1..Len(x.entries) |->
                   << "\"" >> \o x.entries[i][1] \o << "\"", ":" >>
                   \o to_string(x.entries[i][2])], << "," >>)
         \o << "}" >>
    [] x.tag = "Tuple" ->
         << "(" >> \o to_string(x.a) \o << ",", " " >> \o to_string(x.b) \o << ")" >>
    [] x.tag = "BinaryUtil" -> Binary_to_string(x.bin)

\* PartialEq::eq.
eq(a, b) == to_string(a) = to_string(b)

\* The closure of weight's map without its test: every child weight is summed.
zero_never(w) == w

\* The closure of weight's map: a child weight equal to f64::MAX counts as 0.
zero_if_max(w) == IF f64_eq(w, F64_MAX) THEN 0 ELSE w

RECURSIVE f64_sum(_)
f64_sum(ws) == IF ws = <<>> THEN 0 ELSE f64_add(f64_sum(Take(ws, Len(ws) - 1)), ws[Len(ws)])

RECURSIVE weight(_)
weight(x) ==
  CASE x.tag = "Number" -> x.n
    [] x.tag = "List" ->
         f64_sum([i \in 1..Len(x.items) |-> zero_if_max(weight(x.items[i]))])
    [] x.tag = "Dict" ->
         f64_sum([i \in 1..Len(x.entries) |-> zero_if_max(weight(x.entries[i][2]))])
    [] x.tag = "Tuple" -> f64_add(zero_if_max(weight(x.a)), zero_if_max(weight(x.b)))
    [] OTHER -> F64_MAX

\* Ord::cmp.
cmp(a, b) ==
  LET c == f64_partial_cmp(weight(a), weight(b))
  IN  IF c = "None" THEN "Equal" ELSE c

(***************************************************************************)
(* nom.  A parser returns Ok(rest, out), a recoverable Error, or a Failure *)
(* (what cut raises: alt and separated_list0 pass it on untried).          *)
(***************************************************************************)
Ok(rest, out) == [k |-> "Ok", rest |-> rest, out |-> out]

Error == [k |-> "Error"]

Failure == [k |-> "Failure"]

\* Sequencing: what follows a parser that returned Ok; its error otherwise.
and_then(r, K(_)) == IF r.k = "Ok" THEN K(r) ELSE r

\* alt of two: the second is tried on an Error of the first.
or_else(a, b) == IF a.k = "Error" THEN b ELSE a

\* nom::combinator::map
map(r, F(_)) == IF r.k = "Ok" THEN Ok(r.rest, F(r.out)) ELSE r

\* digit0: the length of the leading run of ASCII digits.
RECURSIVE span_digits(_)
span_digits(s) ==
  IF s # <<>> /\ is_ascii_digit(s[1]) THEN 1 + span_digits(Tail(s)) ELSE 0

RECURSIVE multispace0(_)
multispace0(msg) ==
  IF msg # <<>> /\ is_multispace(msg[1]) THEN multispace0(Tail(msg)) ELSE msg

tag(t, msg) == IF starts_with(msg, t) THEN Ok(Drop(msg, Len(t)), t) ELSE Error

tag_no_case(t, msg) ==
  IF /\ Len(msg) >= Len(t)
     /\ \A i \in 1..Len(t) : to_ascii_lowercase(msg[i]) = to_ascii_lowercase(t[i])
  THEN Ok(Drop(msg, Len(t)), Take(msg, Len(t)))
  ELSE Error

\* The length of an optional sign.
sign_len(s) == IF s # <<>> /\ s[1] \in {"+", "-"} THEN 1 ELSE 0

\* The length of an optional '.' and the digits behind it.
fraction_len(s) == IF s # <<>> /\ s[1] = "." THEN 1 + span_digits(Tail(s)) ELSE 0

\* The length of an exponent's digits behind its 'e' and optional sign.
exponent_digits(s) == span_digits(Drop(s, 1 + sign_len(Tail(s))))

\* The length of an optional exponent; -1 when the 'e' has no digits.
exponent_len(s) ==
  IF s = <<>> \/ s[1] \notin {"e", "E"} THEN 0
  ELSE IF exponent_digits(s) = 0 THEN 0 - 1
  ELSE 1 + sign_len(Tail(s)) + exponent_digits(s)

\* digit1 with an optional fraction, or '.' digit1: the length, 0 if neither.
mantissa_len(int, frac) ==
  IF int > 0 THEN int + frac ELSE IF frac > 1 THEN frac ELSE 0

\* The literal's length given its exponent's: the exponent's digits are cut.
float_end(n, exp) == IF exp < 0 THEN 0 - 1 ELSE n + exp

float_exponent(msg, n, mant) ==
  IF mant = 0 THEN 0 ELSE float_end(n + mant, exponent_len(Drop(msg, n + mant)))

float_mantissa(msg, n, int) ==
  float_exponent(msg, n, mantissa_len(int, fraction_len(Drop(msg, n + int))))

\* nom::number::complete::recognize_float: the length of the literal, 0 for an
\* Error, -1 for the Failure of an exponent with no digits (cut).
recognize_float(msg) ==
  float_mantissa(msg, sign_len(msg), span_digits(Drop(msg, sign_len(msg))))

RECURSIVE to_nat(_)
to_nat(ds) == IF ds = <<>> THEN 0 ELSE to_nat(Take(ds, Len(ds) - 1)) * 10 + (Ord(ds[Len(ds)]) - 48)

RECURSIVE pow10(_)
pow10(n) == IF n <= 0 THEN 1 ELSE 10 * pow10(n - 1)

\* A magnitude past the largest finite float is infinite.
overflow(x) == IF x > F64_MAX THEN PosInf ELSE x

\* q + r / d to the nearest float, ties to even.
nearest(q, r, d) ==
  overflow(IF 2 * r > d \/ (2 * r = d /\ q % 2 = 1) THEN q + 1 ELSE q)

\* m * 10^scale as a float.
scaled(m, scale) ==
  IF m = 0 THEN 0
  ELSE IF scale >= 0 THEN overflow(m * pow10(scale))
  ELSE nearest(m \div pow10(0 - scale), m % pow10(0 - scale), pow10(0 - scale))

\* The value of an exponent, 0 when there is none.
exponent(s) ==
  IF s = <<>> THEN 0
  ELSE IF s[2] = "-" THEN 0 - to_nat(Drop(s, 2))
  ELSE to_nat(Drop(s, 1 + sign_len(Tail(s))))

\* The magnitude of the digits ds, the frac last of them behind the '.', with
\* the exponent s.
magnitude(ds, frac, s) == scaled(to_nat(ds), exponent(s) - frac)

\* An unsigned literal whose first int characters are its integer digits.
unsigned(a, int) ==
  IF fraction_len(Drop(a, int)) = 0 THEN magnitude(Take(a, int), 0, Drop(a, int))
  ELSE magnitude(Take(a, int) \o SubSeq(a, int + 2, int + fraction_len(Drop(a, int))),
                 fraction_len(Drop(a, int)) - 1,
                 Drop(a, int + fraction_len(Drop(a, int))))

\* <f64 as FromStr>::from_str on a literal recognize_float accepted: the nearest
\* float, infinite past the largest finite one.
f64_from_str(lit) ==
  IF lit[1] = "-" THEN 0 - unsigned(Tail(lit), span_digits(Tail(lit)))
  ELSE unsigned(Drop(lit, sign_len(lit)), span_digits(Drop(lit, sign_len(lit))))

\* nom's double after recognize_float returned n: the literal's float, else
\* nan, inf or infinity in any case.
double(n, msg) ==
  IF n < 0 THEN Failure
  ELSE IF n > 0 THEN Ok(Drop(msg, n), f64_from_str(Take(msg, n)))
  ELSE or_else(map(tag_no_case(<< "n", "a", "n" >>, msg), LAMBDA o : NaN),
               map(tag_no_case(<< "i", "n", "f" >>, msg), LAMBDA o : PosInf))

parse_num(msg) == double(recognize_float(msg), msg)

parse_bool(msg) ==
  or_else(map(tag_no_case(<< "t", "r", "u", "e" >>, msg), LAMBDA o : TRUE),
          map(tag_no_case(<< "f", "a", "l", "s", "e" >>, msg), LAMBDA o : FALSE))

\* take_till1 of `normal`: the length of the run before a backslash, a quote or
\* a control character.
RECURSIVE span_normal(_)
span_normal(s) ==
  IF s # <<>> /\ ~(s[1] = "\\" \/ s[1] = "\"" \/ is_ascii_control(s[1]))
  THEN 1 + span_normal(Tail(s)) ELSE 0

\* take_till1: the first n characters, an Error when n is 0.
take(n, msg) == IF n = 0 THEN Error ELSE Ok(Drop(msg, n), Take(msg, n))

normal(msg) == take(span_normal(msg), msg)

parse_hex(msg) ==
  IF /\ Len(msg) >= 5
     /\ msg[1] = "u"
     /\ \A i \in 1..5 : is_ascii_hexdigit(msg[i]) \/ msg[i] = "u"
  THEN Ok(Drop(msg, 5), Take(msg, 5))
  ELSE Error

escapable(i) ==
  IF i # <<>> /\ i[1] \in {"\"", "\\", "/", "b", "f", "n", "r", "t"}
  THEN Ok(Tail(i), Take(i, 1))
  ELSE parse_hex(i)

\* nom::bytes::complete::escaped(normal, '\\', escapable) on msg, with i of it
\* left to read.
RECURSIVE escaped(_, _)
RECURSIVE escaped_normal(_, _, _)
RECURSIVE escaped_control(_, _)

\* After the escapable parser returned e.
escaped_control(e, msg) ==
  IF e.k # "Ok" THEN e
  ELSE IF e.rest = <<>> THEN Ok(<<>>, msg)
  ELSE escaped(msg, e.rest)

\* After the normal parser returned n on i.
escaped_normal(n, msg, i) ==
  IF n.k = "Ok" THEN
    (IF n.rest = <<>> THEN Ok(<<>>, msg) ELSE escaped(msg, n.rest))
  ELSE IF i[1] = "\\" THEN
    (IF Len(i) <= 1 THEN Error ELSE escaped_control(escapable(Tail(i)), msg))
  ELSE IF Len(i) = Len(msg) THEN Error
  ELSE Ok(i, Take(msg, Len(msg) - Len(i)))

escaped(msg, i) == IF i = <<>> THEN Ok(<<>>, msg) ELSE escaped_normal(normal(i), msg, i)

string_format(msg) == escaped(msg, msg)

parse_str(msg) ==
  or_else(tag(<< "\"", "\"" >>, msg),
          and_then(tag(<< "\"" >>, msg), LAMBDA open :
          and_then(string_format(open.rest), LAMBDA body :
          and_then(tag(<< "\"" >>, body.rest), LAMBDA close :
          Ok(close.rest, body.out)))))

\* take_till1 of parse_bin: the run before a backslash, a ')' or a control character.
RECURSIVE span_bin(_)
span_bin(s) ==
  IF s # <<>> /\ ~(s[1] = "\\" \/ s[1] = ")" \/ is_ascii_control(s[1]))
  THEN 1 + span_bin(Tail(s)) ELSE 0

binary_open == << "b", "i", "n", "a", "r", "y", "!", "(" >>

\* unwrap_or with a default that is not the empty buffer.
unwrap_or_zeroed(r) == IF r.ok THEN r.bin ELSE Binary_new(<< 0 >>)

\* Binary::from_b64(..).unwrap_or(Binary::new(vec![]))
unwrap_or_empty(r) == IF r.ok THEN r.bin ELSE Binary_new(<<>>)

parse_bin(msg) ==
  map(or_else(tag(binary_open \o << ")" >>, msg),
              and_then(tag(binary_open, msg), LAMBDA open :
              and_then(take(span_bin(open.rest), open.rest), LAMBDA content :
              and_then(tag(<< ")" >>, content.rest), LAMBDA close :
              Ok(close.rest, content.out))))),
      LAMBDA t : unwrap_or_empty(Binary_from_b64(t)))

(***************************************************************************)
(* HashMap.  A map iterates in an order its RandomState decides: `seed` is *)
(* a permutation of 1..n, and the map's keys, numbered as first inserted,  *)
(* iterate in the order the seed lists their numbers (keys past n follow   *)
(* as inserted).                                                           *)
(***************************************************************************)
RECURSIVE Perms(_)
Perms(n) ==
  IF n = 0 THEN {<<>>}
  ELSE {[i \in 1..n |-> IF i < k THEN p[i] ELSE IF i = k THEN n ELSE p[i - 1]] :
          p \in Perms(n - 1), k \in 1..n}

\* The distinct keys of a sequence of pairs, in the order first inserted.
RECURSIVE first_keys(_)
first_keys(pairs) ==
  IF pairs = <<>> THEN <<>>
  ELSE LET init == first_keys(Take(pairs, Len(pairs) - 1))
           key == pairs[Len(pairs)][1]
       IN  IF \E i \in 1..Len(init) : init[i] = key THEN init ELSE Append(init, key)

\* The value a key ends with: a later insert overwrites.
last_value(pairs, key) ==
  pairs[CHOOSE i \in 1..Len(pairs) :
          pairs[i][1] = key /\ \A j \in (i + 1)..Len(pairs) : pairs[j][1] # key][2]

\* FromIterator for HashMap<String, DValue>, then its iteration order.
HashMap_collect(pairs, seed) ==
  LET keys == first_keys(pairs)
      n == Len(keys)
      listed == SelectSeq(seed, LAMBDA x : x <= n)
      order == listed \o [i \in 1..(n - Len(listed)) |-> Len(seed) + i]
  IN  [i \in 1..n |-> << keys[order[i]], last_value(pairs, keys[order[i]]) >>]

(***************************************************************************)
(* ValueParser.                                                            *)
(***************************************************************************)
RECURSIVE parse(_, _)
RECURSIVE element(_, _)
RECURSIVE pair(_, _)
RECURSIVE member(_, _, _)
RECURSIVE separated_list0(_, _, _)
RECURSIVE separated_first(_, _, _, _)
RECURSIVE separated_more(_, _, _, _)
RECURSIVE separated_next(_, _, _, _, _)
RECURSIVE parse_list(_, _)
RECURSIVE parse_dict(_, _)
RECURSIVE parse_tuple(_, _)
RECURSIVE alternatives(_, _)

\* delimited(multispace0, ValueParser::parse, multispace0).
element(msg, seed) ==
  and_then(parse(multispace0(msg), seed), LAMBDA r : Ok(multispace0(r.rest), r.out))

\* separated_pair(delimited(ws, parse_str, ws), tag(":"), delimited(ws, parse, ws)).
pair(msg, seed) ==
  and_then(parse_str(multispace0(msg)), LAMBDA key :
  and_then(tag(<< ":" >>, multispace0(key.rest)), LAMBDA colon :
  and_then(element(colon.rest, seed), LAMBDA value :
  Ok(value.rest, << key.out, value.out >>))))

\* The member parser separated_list0 is given: of a list, or of a dict.
member(of, msg, seed) == IF of = "dict" THEN pair(msg, seed) ELSE element(msg, seed)

\* separated_list0's loop: after the separator's result sep, then after the
\* member's result e, with the members `res` read and `i` left.
separated_next(of, e, i, res, seed) ==
  IF e.k = "Error" THEN Ok(i, res)
  ELSE IF e.k = "Failure" THEN e
  ELSE separated_more(of, e.rest, Append(res, e.out), seed)

separated_more(of, i, res, seed) ==
  IF ~starts_with(i, << "," >>) THEN Ok(i, res)
  ELSE separated_next(of, member(of, Tail(i), seed), i, res, seed)

separated_first(of, e, i, seed) ==
  IF e.k = "Error" THEN Ok(i, <<>>)
  ELSE IF e.k = "Failure" THEN e
  ELSE separated_more(of, e.rest, << e.out >>, seed)

\* separated_list0(tag(","), member)
separated_list0(of, i, seed) == separated_first(of, member(of, i, seed), i, seed)

parse_list(msg, seed) ==
  and_then(tag(<< "[" >>, msg), LAMBDA open :
  and_then(separated_list0("list", open.rest, seed), LAMBDA items :
  and_then(tag(<< "]" >>, items.rest), LAMBDA close :
  Ok(close.rest, items.out))))

parse_dict(msg, seed) ==
  and_then(tag(<< "{" >>, msg), LAMBDA open :
  and_then(separated_list0("dict", open.rest, seed), LAMBDA items :
  and_then(tag(<< "}" >>, items.rest), LAMBDA close :
  Ok(close.rest, HashMap_collect(items.out, seed)))))

parse_tuple(msg, seed) ==
  and_then(tag(<< "(" >>, msg), LAMBDA open :
  and_then(element(open.rest, seed), LAMBDA a :
  and_then(tag(<< "," >>, a.rest), LAMBDA comma :
  and_then(element(comma.rest, seed), LAMBDA b :
  and_then(tag(<< ")" >>, b.rest), LAMBDA close :
  Ok(close.rest, << a.out, b.out >>))))))

\* The pair boxed in the wrong order.
Tuple_swapped(t) == VTuple(t[2], t[1])

\* |pair| (Box::new(pair.0), Box::new(pair.1)), then DValue::Tuple.
Tuple_of(t) == VTuple(t[1], t[2])

\* The alternatives of ValueParser::parse, in their order.
alternatives(m, seed) ==
  or_else(map(parse_num(m), VNumber),
  or_else(map(parse_bool(m), VBoolean),
  or_else(map(parse_str(m), VString),
  or_else(map(parse_list(m, seed), VList),
  or_else(map(parse_dict(m, seed), VDict),
  or_else(map(parse_tuple(m, seed), Tuple_of),
          map(parse_bin(m), VBinaryUtil)))))))

parse(msg, seed) ==
  and_then(alternatives(multispace0(msg), seed), LAMBDA r : Ok(multispace0(r.rest), r.out))

Returned(x) == [panic |-> FALSE, out |-> x]

\* match ValueParser::parse(&data) { Ok((_, v)) => v, Err(_) => Self::None }
parsed_or_none(r) == Returned(IF r.k = "Ok" THEN r.out ELSE VNone)

\* The envelope's content once base64 has decoded it.
from_decoded(decoded, seed) ==
  IF ~decoded.ok THEN Returned(VNone)
  ELSE IF ~from_utf8(decoded.data).ok THEN Returned(VNone)
  ELSE parsed_or_none(parse(from_utf8(decoded.data).s, seed))

\* DValue::from: [panic |-> TRUE], or [panic |-> FALSE, out |-> the DValue].
from(data, seed) ==
  IF starts_with(data, << "b", ":" >>) /\ ends_with(data, << ":" >>) THEN
    IF 2 > Len(data) - 1 THEN [panic |-> TRUE]
    ELSE from_decoded(b64_decode(SubSeq(data, 3, Len(data) - 1)), seed)
  ELSE parsed_or_none(parse(data, seed))

(***************************************************************************)
(* serde_json.  to_json writes what #[derive(Serialize)] gives an enum:    *)
(* a unit variant is its name as a string, any other variant an object of  *)
(* one key, the variant's name.                                            *)
(***************************************************************************)
hex_digit(n) == IF n < 10 THEN Chr(48 + n) ELSE Chr(87 + n)

\* serde_json's escape of one character of a string.
json_escape(c) ==
  IF c = "\"" THEN << "\\", "\"" >>
  ELSE IF c = "\\" THEN << "\\", "\\" >>
  ELSE IF c = "\n" THEN << "\\", "n" >>
  ELSE IF c = "\t" THEN << "\\", "t" >>
  ELSE IF c = "\r" THEN << "\\", "r" >>
  ELSE IF c = "\f" THEN << "\\", "f" >>
  ELSE IF is_ascii(c) /\ Ord(c) = 8 THEN << "\\", "b" >>
  ELSE IF is_ascii(c) /\ Ord(c) < 32 THEN
    << "\\", "u", "0", "0", hex_digit(Ord(c) \div 16), hex_digit(Ord(c) % 16) >>
  ELSE << c >>

RECURSIVE json_string(_)
json_string(s) ==
  IF s = <<>> THEN <<>> ELSE json_escape(s[1]) \o json_string(Tail(s))

json_quoted(s) == << "\"" >> \o json_string(s) \o << "\"" >>

\* A float written as an integer is: with no fraction.
json_f64_whole(x) ==
  IF ~is_finite(x) THEN << "n", "u", "l", "l" >> ELSE f64_to_string(x)

\* A float as serde_json writes it: the shortest decimal with a fraction, null
\* for a float that is not finite.
json_f64(x) ==
  IF ~is_finite(x) THEN << "n", "u", "l", "l" >>
  ELSE f64_to_string(x) \o << ".", "0" >>

json_tagged(name, content) ==
  << "{" >> \o json_quoted(name) \o << ":" >> \o content \o << "}" >>

RECURSIVE serialize(_)
serialize(x) ==
  CASE x.tag = "None" -> json_quoted(<< "N", "o", "n", "e" >>)
    [] x.tag = "String" ->
         json_tagged(<< "S", "t", "r", "i", "n", "g" >>, json_quoted(x.s))
    [] x.tag = "Number" ->
         json_tagged(<< "N", "u", "m", "b", "e", "r" >>, json_f64(x.n))
    [] x.tag = "Boolean" ->
         json_tagged(<< "B", "o", "o", "l", "e", "a", "n" >>,
                     IF x.b THEN << "t", "r", "u", "e" >> ELSE << "f", "a", "l", "s", "e" >>)
    [] x.tag = "List" ->
         json_tagged(<< "L", "i", "s", "t" >>,
                     << "[" >>
                     \o join([i \in 1..Len(x.items) |-> serialize(x.items[i])], << "," >>)
                     \o << "]" >>)
    [] x.tag = "Dict" ->
         json_tagged(<< "D", "i", "c", "t" >>,
                     << "{" >>
                     \o join([i \in 1..Len(x.entries) |->
                               json_quoted(x.entries[i][1]) \o << ":" >>
                               \o serialize(x.entries[i][2])], << "," >>)
                     \o << "}" >>)
    [] x.tag = "Tuple" ->
         json_tagged(<< "T", "u", "p", "l", "e" >>,
                     << "[" >> \o serialize(x.a) \o << "," >> \o serialize(x.b) \o << "]" >>)
    [] x.tag = "BinaryUtil" ->
         json_tagged(<< "B", "i", "n", "a", "r", "y", "U", "t", "i", "l" >>,
                     << "{" >> \o json_quoted(<< "d", "a", "t", "a" >>) \o << ":", "[" >>
                     \o join([i \in 1..Len(x.bin.data) |-> digits(x.bin.data[i])], << "," >>)
                     \o << "]", "}" >>)

to_json(x) == serialize(x)

(***************************************************************************)
(* The JSON reader: a text to a document, [ok |-> FALSE] when malformed.   *)
(* A document is null, a bool, a num (its float, and its integer when the  *)
(* literal is one), a str, an arr of documents or an obj of members.       *)
(***************************************************************************)
JOk(rest, out) == [ok |-> TRUE, rest |-> rest, out |-> out]

JErr == [ok |-> FALSE]

j_then(r, K(_)) == IF r.ok THEN K(r) ELSE JErr

RECURSIVE json_ws(_)
json_ws(msg) ==
  IF msg # <<>> /\ msg[1] \in {" ", "\t", "\n", "\r"} THEN json_ws(Tail(msg)) ELSE msg

hex_value(c) ==
  IF Ord(c) \in 48..57 THEN Ord(c) - 48
  ELSE IF Ord(c) \in 65..70 THEN Ord(c) - 55
  ELSE Ord(c) - 87

hex4(s) == hex_value(s[1]) * 4096 + hex_value(s[2]) * 256 + hex_value(s[3]) * 16 + hex_value(s[4])

is_hex4(s) == Len(s) >= 4 /\ \A i \in 1..4 : is_ascii_hexdigit(s[i])

\* Whether s starts with the \u escape of a low surrogate.
low_surrogate(s) ==
  /\ Len(s) >= 2 /\ s[1] = "\\" /\ s[2] = "u"
  /\ is_hex4(Drop(s, 2))
  /\ hex4(Drop(s, 2)) \in 56320..57343

RECURSIVE json_chars(_, _)
RECURSIVE json_unicode(_, _, _)

\* A \u escape of value hi, with `more` after it.
json_unicode(hi, more, acc) ==
  IF hi \in 56320..57343 THEN JErr
  ELSE IF hi \notin 55296..56319 THEN json_chars(more, Append(acc, Chr(hi)))
  ELSE IF low_surrogate(more) THEN
    json_chars(Drop(more, 6),
               Append(acc, Chr(65536 + (hi - 55296) * 1024 + (hex4(Drop(more, 2)) - 56320))))
  ELSE JErr

\* The characters of a string literal after its opening quote.
json_chars(msg, acc) ==
  IF msg = <<>> THEN JErr
  ELSE IF msg[1] = "\"" THEN JOk(Tail(msg), acc)
  ELSE IF is_ascii(msg[1]) /\ Ord(msg[1]) < 32 THEN JErr
  ELSE IF msg[1] # "\\" THEN json_chars(Tail(msg), Append(acc, msg[1]))
  ELSE IF Len(msg) < 2 THEN JErr
  ELSE IF msg[2] = "u" THEN
    (IF is_hex4(Drop(msg, 2)) THEN json_unicode(hex4(Drop(msg, 2)), Drop(msg, 6), acc)
     ELSE JErr)
  ELSE IF msg[2] \in {"\"", "\\", "/", "b", "f", "n", "r", "t"} THEN
    json_chars(Drop(msg, 2),
               Append(acc, CASE msg[2] = "b" -> Chr(8)
                             [] msg[2] = "f" -> "\f"
                             [] msg[2] = "n" -> "\n"
                             [] msg[2] = "r" -> "\r"
                             [] msg[2] = "t" -> "\t"
                             [] OTHER -> msg[2]))
  ELSE JErr

\* The length of a fraction; -1 for a '.' with no digit behind it.
json_fraction_len(s) ==
  IF s = <<>> \/ s[1] # "." THEN 0
  ELSE IF span_digits(Tail(s)) = 0 THEN 0 - 1
  ELSE 1 + span_digits(Tail(s))

\* The integer of a literal that is all of a sign and digits.
int_of(lit) == IF lit[1] = "-" THEN 0 - to_nat(Tail(lit)) ELSE to_nat(lit)

\* The document of the literal lit, `whole` when it has no fraction or exponent.
json_num(next, lit, whole) ==
  IF ~whole /\ ~is_finite(f64_from_str(lit)) THEN JErr
  ELSE JOk(next, [j |-> "num", x |-> f64_from_str(lit), whole |-> whole,
                  int |-> IF whole THEN int_of(lit) ELSE 0])

json_number_end(msg, n, frac, exp) ==
  IF exp < 0 THEN JErr
  ELSE json_num(Drop(msg, n + frac + exp), Take(msg, n + frac + exp), frac = 0 /\ exp = 0)

json_number_fraction(msg, n, frac) ==
  IF frac < 0 THEN JErr
  ELSE json_number_end(msg, n, frac, exponent_len(Drop(msg, n + frac)))

\* After the sign: the integer part is 0 alone, or digits that start with no 0.
json_number_int(msg, sign, int) ==
  IF int = 0 THEN JErr
  ELSE IF msg[sign + 1] = "0" /\ int > 1 THEN JErr
  ELSE json_number_fraction(msg, sign + int, json_fraction_len(Drop(msg, sign + int)))

\* A number literal: -? (0 | [1-9][0-9]*) (. [0-9]+)? ([eE] [+-]? [0-9]+)?
json_number(msg) ==
  IF msg = <<>> THEN JErr
  ELSE IF msg[1] = "-" THEN json_number_int(msg, 1, span_digits(Tail(msg)))
  ELSE json_number_int(msg, 0, span_digits(msg))

RECURSIVE json_value(_)
RECURSIVE json_token(_)
RECURSIVE json_array(_)
RECURSIVE json_array_more(_, _)
RECURSIVE json_member(_)
RECURSIVE json_member_value(_, _)
RECURSIVE json_object(_)
RECURSIVE json_object_more(_, _)

\* After an element of an array: a ',' and another element, or the ']'.
json_array_more(m, acc) ==
  IF m = <<>> THEN JErr
  ELSE IF m[1] = "]" THEN JOk(Tail(m), [j |-> "arr", items |-> acc])
  ELSE IF m[1] # "," THEN JErr
  ELSE j_then(json_value(Tail(m)), LAMBDA e :
              json_array_more(json_ws(e.rest), Append(acc, e.out)))

\* After the '[' and the whitespace behind it.
json_array(m) ==
  IF m # <<>> /\ m[1] = "]" THEN JOk(Tail(m), [j |-> "arr", items |-> <<>>])
  ELSE j_then(json_value(m), LAMBDA e : json_array_more(json_ws(e.rest), << e.out >>))

\* After a member's key: the ':' and the value.
json_member_value(key, m) ==
  IF m = <<>> \/ m[1] # ":" THEN JErr
  ELSE j_then(json_value(Tail(m)), LAMBDA e : JOk(e.rest, << key, e.out >>))

\* "key" : value
json_member(m) ==
  IF m = <<>> \/ m[1] # "\"" THEN JErr
  ELSE j_then(json_chars(Tail(m), <<>>), LAMBDA key :
              json_member_value(key.out, json_ws(key.rest)))

json_object_more(m, acc) ==
  IF m = <<>> THEN JErr
  ELSE IF m[1] = "}" THEN JOk(Tail(m), [j |-> "obj", members |-> acc])
  ELSE IF m[1] # "," THEN JErr
  ELSE j_then(json_member(json_ws(Tail(m))), LAMBDA e :
              json_object_more(json_ws(e.rest), Append(acc, e.out)))

\* After the '{' and the whitespace behind it.
json_object(m) ==
  IF m # <<>> /\ m[1] = "}" THEN JOk(Tail(m), [j |-> "obj", members |-> <<>>])
  ELSE j_then(json_member(m), LAMBDA e : json_object_more(json_ws(e.rest), << e.out >>))

json_token(m) ==
  IF m = <<>> THEN JErr
  ELSE IF starts_with(m, << "n", "u", "l", "l" >>) THEN JOk(Drop(m, 4), [j |-> "null"])
  ELSE IF starts_with(m, << "t", "r", "u", "e" >>) THEN
    JOk(Drop(m, 4), [j |-> "bool", b |-> TRUE])
  ELSE IF starts_with(m, << "f", "a", "l", "s", "e" >>) THEN
    JOk(Drop(m, 5), [j |-> "bool", b |-> FALSE])
  ELSE IF m[1] = "\"" THEN
    j_then(json_chars(Tail(m), <<>>), LAMBDA s : JOk(s.rest, [j |-> "str", s |-> s.out]))
  ELSE IF m[1] = "[" THEN json_array(json_ws(Tail(m)))
  ELSE IF m[1] = "{" THEN json_object(json_ws(Tail(m)))
  ELSE json_number(m)

json_value(msg) == json_token(json_ws(msg))

(***************************************************************************)
(* #[derive(Deserialize)]: a document to a DValue, [ok |-> FALSE] when it  *)
(* is not the encoding of one.                                             *)
(***************************************************************************)
DOk(out) == [ok |-> TRUE, out |-> out]

DErr == [ok |-> FALSE]

Name(x) ==
  CASE x = "None" -> << "N", "o", "n", "e" >>
    [] x = "String" -> << "S", "t", "r", "i", "n", "g" >>
    [] x = "Number" -> << "N", "u", "m", "b", "e", "r" >>
    [] x = "Boolean" -> << "B", "o", "o", "l", "e", "a", "n" >>
    [] x = "List" -> << "L", "i", "s", "t" >>
    [] x = "Dict" -> << "D", "i", "c", "t" >>
    [] x = "Tuple" -> << "T", "u", "p", "l", "e" >>
    [] x = "BinaryUtil" -> << "B", "i", "n", "a", "r", "y", "U", "t", "i", "l" >>
    [] x = "data" -> << "d", "a", "t", "a" >>

is_u8(j) == j.j = "num" /\ j.whole /\ j.int \in 0..255

\* Vec<u8> from an array of integers.
deserialize_bytes(j) ==
  IF j.j = "arr" /\ \A i \in 1..Len(j.items) : is_u8(j.items[i])
  THEN DOk([i \in 1..Len(j.items) |-> j.items[i].int])
  ELSE DErr

\* struct Binary { data }: an object with one data member (other members are
\* skipped), or an array of its one field.
deserialize_Binary(j) ==
  IF j.j = "obj" THEN
    LET at == {i \in 1..Len(j.members) : j.members[i][1] = Name("data")}
        d == deserialize_bytes(j.members[CHOOSE i \in at : TRUE][2])
    IN  IF Cardinality(at) # 1 THEN DErr
        ELSE IF d.ok THEN DOk([data |-> d.out])
        ELSE DErr
  ELSE IF j.j = "arr" /\ Len(j.items) = 1 THEN
    LET d == deserialize_bytes(j.items[1])
    IN  IF d.ok THEN DOk([data |-> d.out]) ELSE DErr
  ELSE DErr

RECURSIVE deserialize(_, _)
deserialize(j, seed) ==
  IF j.j = "str" THEN
    IF j.s = Name("None") THEN DOk(VNone) ELSE DErr
  ELSE IF j.j # "obj" \/ Len(j.members) # 1 THEN DErr
  ELSE
    LET name == j.members[1][1]
        c == j.members[1][2]
        items == [i \in 1..Len(c.items) |-> deserialize(c.items[i], seed)]
        values == [i \in 1..Len(c.members) |-> deserialize(c.members[i][2], seed)]
        bin == deserialize_Binary(c)
    IN  IF name = Name("None") THEN
          (IF c.j = "null" THEN DOk(VNone) ELSE DErr)
        ELSE IF name = Name("String") THEN
          (IF c.j = "str" THEN DOk(VString(c.s)) ELSE DErr)
        ELSE IF name = Name("Number") THEN
          (IF c.j = "num" /\ is_finite(c.x) THEN DOk(VNumber(c.x)) ELSE DErr)
        ELSE IF name = Name("Boolean") THEN
          (IF c.j = "bool" THEN DOk(VBoolean(c.b)) ELSE DErr)
        ELSE IF name = Name("List") THEN
          (IF c.j = "arr" /\ \A i \in 1..Len(items) : items[i].ok
           THEN DOk(VList([i \in 1..Len(items) |-> items[i].out]))
           ELSE DErr)
        ELSE IF name = Name("Dict") THEN
          (IF c.j = "obj" /\ \A i \in 1..Len(values) : values[i].ok
           THEN DOk(VDict(HashMap_collect(
                  [i \in 1..Len(values) |-> << c.members[i][1], values[i].out >>], seed)))
           ELSE DErr)
        ELSE IF name = Name("Tuple") THEN
          (IF c.j = "arr" /\ Len(items) = 2 /\ items[1].ok /\ items[2].ok
           THEN DOk(VTuple(items[1].out, items[2].out))
           ELSE DErr)
        ELSE IF name = Name("BinaryUtil") THEN
          (IF bin.ok THEN DOk(VBinaryUtil(bin.out)) ELSE DErr)
        ELSE DErr

\* serde_json::from_str's result, given the document read: an error when text
\* follows the document or the document encodes no DValue.
from_str(doc, seed) ==
  IF ~doc.ok THEN DErr
  ELSE IF json_ws(doc.rest) # <<>> THEN DErr
  ELSE deserialize(doc.out, seed)

unwrap_or_none(r) == IF r.ok THEN r.out ELSE VNone

\* DValue::from_json: serde_json::from_str(data).unwrap_or(Self::None).
from_json(data, seed) == unwrap_or_none(from_str(json_value(data), seed))

(***************************************************************************)
(* The values and texts drawn.                                             *)
(***************************************************************************)
\* The members added beside a value when an aggregate is built around it.
Siblings == {VNumber(4), VString(<< "x" >>)}

Keys == {<< Chr(96 + i) >> : i \in 1..MaxSteps}

\* The other side of a comparison.
Operands == {VNumber(0), VNumber(5), VString(<< "y" >>), VList(<<>>)}

memento_mori ==
  << "b", "W", "V", "t", "Z", "W", "5", "0", "b", "y", "B", "t", "b", "3", "J", "p" >>

\* The content of a binary literal, of base64 digits and padding and of the
\* three kinds of character the content stops at: base64 that decodes, and
\* text that does not.
Contents ==
  UNION {[1..n -> {"b", "Q", "=", ")", "\\", "\n"}] : n \in 0..MaxText} \cup {memento_mori}

\* The members and tuples a value is built of.
RECURSIVE Steps(_)
Steps(x) ==
  LET RECURSIVE Sum(_)
      Sum(f) == IF f = <<>> THEN 0 ELSE f[1] + Sum(Tail(f))
  IN  CASE x.tag = "List" ->
             Len(x.items) + Sum([i \in 1..Len(x.items) |-> Steps(x.items[i])])
        [] x.tag = "Dict" ->
             Len(x.entries) + Sum([i \in 1..Len(x.entries) |-> Steps(x.entries[i][2])])
        [] x.tag = "Tuple" -> 1 + Steps(x.a) + Steps(x.b)
        [] OTHER -> 0

\* The keys of the largest Dict of a value.
RECURSIVE Entries(_)
Entries(x) ==
  LET Max(S) == CHOOSE m \in S : \A k \in S : k <= m
  IN  CASE x.tag = "List" -> Max({0} \cup {Entries(x.items[i]) : i \in 1..Len(x.items)})
        [] x.tag = "Dict" ->
             Max({Len(x.entries)} \cup {Entries(x.entries[i][2]) : i \in 1..Len(x.entries)})
        [] x.tag = "Tuple" -> Max({Entries(x.a), Entries(x.b)})
        [] OTHER -> 0

\* The orders the maps a parse of x's text builds may iterate in.
Seeds(x) == Perms(Entries(x))

(***************************************************************************)
(* The state: v is the current DValue, op the last operation, input its    *)
(* text argument, u the DValue it read beside v (the value a text was      *)
(* rendered from, the other side of a comparison), and str, num, ord and   *)
(* flag its results.  What an operation does not set is reset.  A value is *)
(* built first (op is "init", then "new"); an operation is then applied to *)
(* it, or to a text alone when no value is built.                          *)
(***************************************************************************)
Init ==
  /\ v = VNone
  /\ u = VNone
  /\ input = <<>>
  /\ op = "init"
  /\ str = <<>>
  /\ num = 0
  /\ ord = "Equal"
  /\ flag = FALSE

\* A constructor: the new value, nothing else.
Built(x) ==
  /\ op \in {"init", "new"}
  /\ v' = x
  /\ u' = VNone
  /\ input' = <<>>
  /\ op' = "new"
  /\ str' = <<>>
  /\ num' = 0
  /\ ord' = "Equal"
  /\ flag' = FALSE

NewNone == op = "init" /\ Built(VNone)

NewString == op = "init" /\ \E s \in {<<>>, << "x" >>} : Built(VString(s))

NewNumber == op = "init" /\ \E n \in {0 - 1, 5, F64_MAX} : Built(VNumber(n))

NewBoolean == op = "init" /\ \E b \in BOOLEAN : Built(VBoolean(b))

NewBinary == op = "init" /\ \E d \in {<<>>, << 109 >>} : Built(VBinaryUtil(Binary_new(d)))

NewList == op = "init" /\ Built(VList(<<>>))

ListOf == op = "new" /\ Steps(v) < MaxSteps /\ Built(VList(<< v >>))

ListPush ==
  /\ op = "new"
  /\ v.tag = "List"
  /\ Steps(v) < MaxSteps
  /\ \E x \in Siblings : Built(VList(Append(v.items, x)))

TupleOf ==
  /\ op = "new"
  /\ Steps(v) < MaxSteps
  /\ \E x \in Siblings : Built(VTuple(v, x)) \/ Built(VTuple(x, v))

NewDict == op = "init" /\ Built(VDict(<<>>))

DictOf ==
  /\ op = "new"
  /\ Steps(v) < MaxSteps
  /\ \E k \in Keys : Built(VDict(<< << k, v >> >>))

\* HashMap::insert: a key already there keeps its place, a new key may change
\* the order the map iterates in.
DictInsert ==
  /\ op = "new"
  /\ v.tag = "Dict"
  /\ \E k \in Keys, x \in Siblings, seed \in Perms(Len(v.entries) + 1) :
       IF \E i \in 1..Len(v.entries) : v.entries[i][1] = k
       THEN Built(VDict([i \in 1..Len(v.entries) |->
                          IF v.entries[i][1] = k THEN << k, x >> ELSE v.entries[i]]))
       ELSE /\ Steps(v) < MaxSteps
            /\ Built(VDict(HashMap_collect(Append(v.entries, << k, x >>), seed)))

\* v.to_string()
Render ==
  /\ op = "new"
  /\ str' = to_string(v)
  /\ op' = "to_string"
  /\ input' = <<>>
  /\ u' = VNone
  /\ num' = 0
  /\ ord' = "Equal"
  /\ flag' = FALSE
  /\ UNCHANGED v

\* DValue::from(data): the value parsed becomes the current one; flag is
\* whether the call panicked.
From(data, source) ==
  \E seed \in Seeds(v) :
    LET r == from(data, seed)
    IN  /\ input' = data
        /\ u' = source
        /\ flag' = r.panic
        /\ v' = IF r.panic THEN v ELSE r.out
        /\ str' = <<>>
        /\ num' = 0
        /\ ord' = "Equal"

\* DValue::from on the canonical rendering of the current value.
FromRendering == op = "new" /\ From(to_string(v), v) /\ op' = "from_rendering"

\* DValue::from on a rendering with text after it that no value goes on with.
FromTrailing ==
  /\ op = "new"
  /\ \E g \in {<< " ", "x" >>, << "]" >>} : From(to_string(v) \o g, v)
  /\ op' = "from_trailing"

\* DValue::from on the envelope b:<base64 of the rendering>:
FromEnvelope ==
  /\ op = "new"
  /\ From(<< "b", ":" >> \o b64_encode(as_bytes(to_string(v))) \o << ":" >>, v)
  /\ op' = "from_envelope"

\* DValue::from on inputs that are the rendering of no value: an unterminated
\* list, an exponent with no digits, and envelopes of nothing, of text that
\* is no base64, of bytes that are no UTF-8 and of text that is no value.
FromMalformed ==
  /\ op = "init"
  /\ \E t \in { << "[", "1", ",", "2" >>,
               << "1", "e" >>,
               << "b", ":" >>,
               << "b", ":", "M", ":" >>,
               << "b", ":", "/", "w", "=", "=", ":" >>,
               << "b", ":", "w", "6", "k", "=", ":" >> } : From(t, VNone)
  /\ op' = "from_malformed"

\* DValue::from on one, two or three values between parentheses: the current
\* value and siblings behind it, each a step.  u is the List of them.
FromParenthesised ==
  /\ op = "new"
  /\ \E behind \in UNION {[1..n -> Siblings] : n \in 0..2} :
       /\ Steps(v) + Len(behind) <= MaxSteps
       /\ From(<< "(" >>
               \o join([i \in 1..(1 + Len(behind)) |->
                         to_string((<< v >> \o behind)[i])], << "," >>)
               \o << ")" >>,
               VList(<< v >> \o behind))
       /\ op' = "from_parenthesised"

\* ValueParser::parse on the literal binary!(<t>): flag is whether it parsed,
\* str what it left unconsumed.
ParseBinary ==
  \E t \in Contents, seed \in Perms(0) :
    LET r == parse(binary_open \o t \o << ")" >>, seed)
    IN  /\ op = "init"
        /\ input' = t
        /\ op' = "parse_binary"
        /\ flag' = (r.k = "Ok")
        /\ v' = IF r.k = "Ok" THEN r.out ELSE VNone
        /\ str' = IF r.k = "Ok" THEN r.rest ELSE <<>>
        /\ u' = VNone
        /\ num' = 0
        /\ ord' = "Equal"

\* Binary::from_b64(t): flag is whether it returned Ok.
FromB64 ==
  \E t \in Contents :
    LET r == Binary_from_b64(t)
    IN  /\ op = "init"
        /\ input' = t
        /\ op' = "from_b64"
        /\ flag' = r.ok
        /\ v' = IF r.ok THEN VBinaryUtil(r.bin) ELSE VNone
        /\ str' = <<>>
        /\ u' = VNone
        /\ num' = 0
        /\ ord' = "Equal"

\* v.to_json()
ToJson ==
  /\ op = "new"
  /\ str' = to_json(v)
  /\ op' = "to_json"
  /\ input' = <<>>
  /\ u' = VNone
  /\ num' = 0
  /\ ord' = "Equal"
  /\ flag' = FALSE
  /\ UNCHANGED v

\* DValue::from_json(v.to_json())
FromJson ==
  \E seed \in Seeds(v) :
    /\ op = "new"
    /\ input' = to_json(v)
    /\ u' = v
    /\ v' = from_json(to_json(v), seed)
    /\ op' = "from_json"
    /\ str' = <<>>
    /\ num' = 0
    /\ ord' = "Equal"
    /\ flag' = FALSE

\* v.weight()
Weight ==
  /\ op = "new"
  /\ num' = weight(v)
  /\ op' = "weight"
  /\ input' = <<>>
  /\ u' = VNone
  /\ str' = <<>>
  /\ ord' = "Equal"
  /\ flag' = FALSE
  /\ UNCHANGED v

\* v.cmp(&x) and v == x
Cmp ==
  \E x \in Operands :
    /\ op = "new"
    /\ u' = x
    /\ ord' = cmp(v, x)
    /\ flag' = eq(v, x)
    /\ op' = "cmp"
    /\ input' = <<>>
    /\ str' = <<>>
    /\ num' = 0
    /\ UNCHANGED v

\* The constructors.
Build ==
  \/ NewNone
  \/ NewString
  \/ NewNumber
  \/ NewBoolean
  \/ NewBinary
  \/ NewList
  \/ ListOf
  \/ ListPush
  \/ TupleOf
  \/ NewDict
  \/ DictOf
  \/ DictInsert

Next ==
  \/ Build
  \/ Render
  \/ FromRendering
  \/ FromTrailing
  \/ FromEnvelope
  \/ FromMalformed
  \/ FromParenthesised
  \/ ParseBinary
  \/ FromB64
  \/ ToJson
  \/ FromJson
  \/ Weight
  \/ Cmp

Spec == Init /\ [][Next]_vars

\* Values and their weights.
SpecWeight == Init /\ [][Build \/ Weight]_vars

\* Values and their JSON documents.
SpecJson == Init /\ [][Build \/ ToJson \/ FromJson]_vars

\* Values and the aggregate literals written from them.
SpecAggregate == Init /\ [][Build \/ FromRendering \/ FromParenthesised]_vars

\* Binary literals.
SpecBinary == Init /\ [][ParseBinary \/ FromB64]_vars

(***************************************************************************)
(* Weight.                                                                 *)
(***************************************************************************)
\* The immediate children of an aggregate, in the order it iterates.
Children(x) ==
  CASE x.tag = "List" -> x.items
    [] x.tag = "Dict" -> [i \in 1..Len(x.entries) |-> x.entries[i][2]]
    [] x.tag = "Tuple" -> << x.a, x.b >>
    [] OTHER -> <<>>

Aggregate(x) == x.tag \in {"List", "Dict", "Tuple"}

NonNumeric(x) == x.tag \in {"None", "String", "Boolean", "BinaryUtil"}

\* The weight as section 5 of the specification words it: a Number's value,
\* the sentinel for a non-numeric leaf, and for an aggregate the sum of its
\* children's weights with the sentinel counted as zero.
RECURSIVE SentinelWeight(_)
SentinelWeight(x) ==
  IF x.tag = "Number" THEN x.n
  ELSE IF NonNumeric(x) THEN F64_MAX
  ELSE f64_sum([i \in 1..Len(Children(x)) |->
                 IF SentinelWeight(Children(x)[i]) = F64_MAX
                 THEN 0 ELSE SentinelWeight(Children(x)[i])])

\* C6: the weight of a Number is its value, the weight of None, String,
\* Boolean and Binary is the sentinel, and the weight of a List, Dict or Tuple
\* is the sum of its immediate children's weights with every child weight
\* equal to the sentinel replaced by zero, at every nesting depth; an empty
\* List and an aggregate of non-numeric leaves weigh 0.
C6_Weight ==
  op = "weight" =>
    /\ num = SentinelWeight(v)
    /\ (v.tag = "List" /\ v.items = <<>>) => num = 0
    /\ (Aggregate(v) /\ \A i \in 1..Len(Children(v)) : NonNumeric(Children(v)[i]))
         => num = 0
    /\ v = VList(<< VString(<< "x" >>), VNumber(5) >>) => num = 5

\* The weight of a List was taken that holds a String beside a Number.
C6_Witness ==
  /\ op = "weight"
  /\ v.tag = "List"
  /\ \E i, j \in 1..Len(v.items) : v.items[i].tag = "String" /\ v.items[j].tag = "Number"
  /\ num = 4

\* What a child adds to its parent's weight when only the non-numeric
\* children count as zero.
RECURSIVE NumericWeight(_)
NumericWeight(x) ==
  IF x.tag = "Number" THEN x.n
  ELSE IF NonNumeric(x) THEN 0
  ELSE f64_sum([i \in 1..Len(Children(x)) |-> NumericWeight(Children(x)[i])])

\* C10: in the weight of a List, Dict or Tuple a Number child adds its value,
\* the largest finite one too, an aggregate child adds its own weight, and
\* only None, String, Boolean and Binary children add zero.
C10_OnlyNonNumericZeroed ==
  (op = "weight" /\ Aggregate(v)) => num = NumericWeight(v)

(***************************************************************************)
(* Ordering.                                                               *)
(***************************************************************************)
\* C7: cmp orders two values by their weights, and is Equal exactly when the
\* two are equal (their canonical renderings are the same text).
C7_CmpConsistentWithEq ==
  op = "cmp" =>
    /\ ord = f64_partial_cmp(weight(v), weight(u))
    /\ (ord = "Equal") <=> flag

(***************************************************************************)
(* DValue::from.                                                           *)
(***************************************************************************)
FromOps ==
  {"from_rendering", "from_trailing", "from_envelope", "from_malformed",
   "from_parenthesised"}

\* C2: DValue::from returns a value for every input, the inputs b:...: of any
\* length too, and never panics; for a malformed input, and for an envelope
\* whose content is not base64 or not UTF-8, the value is None.
C2_FromTotal ==
  /\ op \in FromOps => ~flag
  /\ op = "from_malformed" => (~flag /\ v = VNone)

\* A text the grammar reads as one value with nothing left.
WellFormed(text) ==
  LET r == parse(text, <<>>) IN r.k = "Ok" /\ r.rest = <<>>

\* C3: a well-formed value followed by text the grammar does not consume
\* parses to None, not to the value of the prefix.
C3_TrailingGarbageIsNone ==
  (op = "from_trailing" /\ WellFormed(to_string(u))) => (~flag /\ v = VNone)

\* The canonical form as section 4.4 of the specification words it.
RECURSIVE Canonical(_)
Canonical(x) ==
  CASE x.tag = "None" -> << "n", "o", "n", "e" >>
    [] x.tag = "String" -> << "\"" >> \o x.s \o << "\"" >>
    [] x.tag = "Number" -> f64_to_string(x.n)
    [] x.tag = "Boolean" ->
         IF x.b THEN << "t", "r", "u", "e" >> ELSE << "f", "a", "l", "s", "e" >>
    [] x.tag = "List" ->
         << "[" >> \o join([i \in 1..Len(x.items) |-> Canonical(x.items[i])], << "," >>)
         \o << "]" >>
    [] x.tag = "Dict" ->
         << "{" >>
         \o join([i \in 1..Len(x.entries) |->
                   << "\"" >> \o x.entries[i][1] \o << "\"", ":" >>
                   \o Canonical(x.entries[i][2])], << "," >>)
         \o << "}" >>
    [] x.tag = "Tuple" ->
         << "(" >> \o Canonical(x.a) \o << ",", " " >> \o Canonical(x.b) \o << ")" >>
    [] x.tag = "BinaryUtil" -> binary_open \o b64_encode(x.bin.data) \o << ")" >>

\* C4: to_string gives the canonical form of every variant, a Binary as
\* binary!(<base64 of its bytes>), applied to children too.
C4_CanonicalRendering ==
  op = "to_string" => str = Canonical(v)

\* C1: for a value whose Dicts have at most one key, DValue::from on its
\* canonical rendering returns a value with the same canonical rendering.
C1_TextRoundTrip ==
  (op = "from_rendering" /\ Entries(u) <= 1) => (~flag /\ to_string(v) = to_string(u))

(***************************************************************************)
(* Aggregate literals.                                                     *)
(***************************************************************************)
\* The values the texts of xs parse to, one by one.
Parsed(xs, seed) == [i \in 1..Len(xs) |-> parse(to_string(xs[i]), seed).out]

AllWellFormed(xs) == \A i \in 1..Len(xs) : WellFormed(to_string(xs[i]))

\* C9: n well-formed values between brackets, separated by commas, parse to
\* the List of those n values in their order, with nothing left; two between
\* parentheses parse to the Tuple of the two; one, or three, between
\* parentheses parse to no Tuple: DValue::from returns None.
C9_AggregateLiterals ==
  /\ (op = "from_rendering" /\ u.tag = "List" /\ AllWellFormed(u.items)) =>
       /\ ~flag
       /\ \E seed \in Seeds(u) : v = VList(Parsed(u.items, seed))
       /\ WellFormed(input)
  /\ (op = "from_parenthesised" /\ AllWellFormed(u.items)) =>
       /\ ~flag
       /\ Len(u.items) = 2 =>
            \E seed \in Seeds(u) :
              v = VTuple(Parsed(u.items, seed)[1], Parsed(u.items, seed)[2])
       /\ Len(u.items) # 2 => v = VNone

\* Two values between parentheses were parsed, the first a List.
C9_Witness ==
  /\ op = "from_parenthesised"
  /\ Len(u.items) = 2
  /\ AllWellFormed(u.items)
  /\ v.tag = "Tuple"
  /\ v.a.tag = "List"
  /\ v.b = VNumber(4)

(***************************************************************************)
(* Binary literals.                                                        *)
(***************************************************************************)
\* A content with none of the characters a binary literal's content stops at.
Plain(t) == \A i \in 1..Len(t) : ~(t[i] = "\\" \/ t[i] = ")" \/ is_ascii_control(t[i]))

\* The bytes of "memento mori".
memento_mori_bytes == << 109, 101, 109, 101, 110, 116, 111, 32, 109, 111, 114, 105 >>

\* C8 for a content t free of ')', backslash and control characters:
\* binary!(<t>) parses to a Binary with all input consumed, whose payload is
\* the bytes t decodes to when t is base64 and the empty buffer when it is
\* not, and Binary::from_b64 on a t that is not base64 returns an error.
C8_BinaryLiteral ==
  /\ (op = "parse_binary" /\ Plain(input)) =>
       /\ flag
       /\ str = <<>>
       /\ v.tag = "BinaryUtil"
       /\ v.bin.data = IF b64_decode(input).ok THEN b64_decode(input).data ELSE <<>>
       /\ input = memento_mori => v.bin.data = memento_mori_bytes
       /\ input = << "b", "Q", "=", "=" >> => v.bin.data = << 109 >>
       /\ input = << "b", "Q", "=" >> => v.bin.data = <<>>
  /\ (op = "from_b64" /\ ~b64_decode(input).ok) => (~flag /\ v = VNone)

\* The literal of "memento mori" was parsed.
C8_Witness ==
  /\ op = "parse_binary"
  /\ input = memento_mori
  /\ v = VBinaryUtil(Binary_new(memento_mori_bytes))

\* C8 as it is worded, for every content t: binary!(<t>) parses to a Binary
\* with all input consumed.
C8_AnyContent ==
  op = "parse_binary" => (flag /\ str = <<>> /\ v.tag = "BinaryUtil")

(***************************************************************************)
(* The JSON bridge.                                                        *)
(***************************************************************************)
\* A JSON text that is one object of one key, the name of x's variant.
TaggedObject(text, x) ==
  LET d == json_value(text)
  IN  /\ d.ok
      /\ json_ws(d.rest) = <<>>
      /\ d.out.j = "obj"
      /\ Len(d.out.members) = 1
      /\ d.out.members[1][1] = Name(x.tag)

three_six_nine == VList(<< VNumber(3), VNumber(6), VNumber(9) >>)

\* {"List":[{"Number":3.0},{"Number":6.0},{"Number":9.0}]}
three_six_nine_json ==
  << "{", "\"", "L", "i", "s", "t", "\"", ":", "[",
     "{", "\"", "N", "u", "m", "b", "e", "r", "\"", ":", "3", ".", "0", "}", ",",
     "{", "\"", "N", "u", "m", "b", "e", "r", "\"", ":", "6", ".", "0", "}", ",",
     "{", "\"", "N", "u", "m", "b", "e", "r", "\"", ":", "9", ".", "0", "}",
     "]", "}" >>

====
